---- MODULE Spec2Model ----
(***************************************************************************)
(* Model of src/bin/list-comments.rs: the ListComments request pipeline    *)
(*   check_current_user -> fetch_comments -> fetch_users ->                *)
(*   fetch_reactions -> serialize                                          *)
(* An Option<T> is a sequence of length at most one: None is <<>> and      *)
(* Some(x) is <<x>>.  A string is a sequence of characters.                *)
(***************************************************************************)
EXTENDS Integers, Sequences, FiniteSets, Bags, TLC

\* ---------------------------------------------------------------- bounds
\* longest comment batch CommentRecord::list returns
MaxComments == 2
\* longest reaction batch Reaction::list returns
MaxReactions == 2
\* longest auth_token
MaxTokenLen == 2
\* longest reaction batch of SpecOverflow (one record repeated)
OverflowBatch == 65536

\* ------------------------------------------------------------- constants
\* type ReactionCount = u16: a tally is kept modulo 2^16
ReactionCountModulus == 65536

None == <<>>
Some(x) == <<x>>

\* models::user::TOKEN_DELIMITER (one character; its value is immaterial)
TOKEN_DELIMITER == "."
TokenChars == {"a", TOKEN_DELIMITER}

SeqsUpTo(S, n) == UNION {[1..k -> S] : k \in 0..n}

\* format!("USER_{}", segment)
UserKey(segment) == <<"USER_">> \o segment

CommentIds == {1, 2, 3}
UserIds == {UserKey(<<"a">>), UserKey(<<"a", "a">>)}
ReactionTypes == {"like", "dislike"}
Bodies == {"hi"}

\* models::comment::Comment, the fields the handler reads
CommentRecords ==
  [id : CommentIds, replies_to : {None} \cup {Some(p) : p \in CommentIds},
   user_id : UserIds, body : Bodies]

\* models::reaction::Reaction, the fields the handler reads; comment 1 is in
\* the skeleton of some batches and not of others
ReactionRecords ==
  [comment_id : {1}, user_id : UserIds, reaction_type : ReactionTypes]

\* the one record SpecOverflow repeats
OverflowRecords ==
  {[comment_id |-> 1, user_id |-> UserKey(<<"a">>), reaction_type |-> "like"]}

\* request.payload::<Params>(): Err (malformed), Ok(None), Ok(Some(params))
Payloads ==
  {[kind |-> "malformed", auth_token |-> <<>>], [kind |-> "absent", auth_token |-> <<>>]}
  \cup {[kind |-> "params", auth_token |-> t] : t \in SeqsUpTo(TokenChars, MaxTokenLen)}

\* the request: whether the route carries "id", and the payload
Requests == [has_id : BOOLEAN, payload : Payloads]

\* utils::http: ok / bad_request / unauthorized / internal_server_error
ok(data) == [kind |-> "ok", data |-> data]
bad_request == [kind |-> "bad_request", data |-> <<>>]
unauthorized == [kind |-> "unauthorized", data |-> <<>>]
internal_server_error == [kind |-> "internal_server_error", data |-> <<>>]

VARIABLES
  pc,             \* position of respond_to in the chain of stages
  request,        \* Some(request) until check_current_user consumes it
  current_user,   \* ListComments.current_user : Option<User>
  comments,       \* ListComments.comments : BTreeMap<CommentId, Comment>
  users,          \* ListComments.users : HashMap<UserId, UserJson>
  response,       \* what respond_to returned: None while running
  stages,         \* the stages entered so far, in order
  db_calls,       \* the storage calls issued so far, in order, with their results
  comment_batch,  \* the Vec<CommentRecord> parse_comments is iterating
  comments_done,  \* how many of its records the loop has consumed
  reactions_seen  \* the bag of Reaction records parse_reactions has consumed

vars == <<pc, request, current_user, comments, users, response, stages, db_calls,
          comment_batch, comments_done, reactions_seen>>

\* ListComments::new, and a request in flight
Init ==
  /\ pc = "respond_to"
  /\ request \in {Some(r) : r \in Requests}
  /\ current_user = None
  /\ comments = <<>>
  /\ users = <<>>
  /\ response = None
  /\ stages = <<>>
  /\ db_calls = <<>>
  /\ comment_batch = <<>>
  /\ comments_done = 0
  /\ reactions_seen = EmptyBag

\* a stage returned Err: the ? operator returns it from respond_to
Fail(err) ==
  /\ response' = Some(err)
  /\ pc' = "done"

\* ------------------------------------------------------ Identity Resolver

\* str::split(TOKEN_DELIMITER): the segments between delimiters, never empty
RECURSIVE split(_)
split(s) ==
  IF \A i \in 1..Len(s) : s[i] # TOKEN_DELIMITER
  THEN <<s>>
  ELSE LET i == CHOOSE k \in 1..Len(s) :
                  s[k] = TOKEN_DELIMITER /\ \A j \in 1..(k - 1) : s[j] # TOKEN_DELIMITER
       IN <<SubSeq(s, 1, i - 1)>> \o split(SubSeq(s, i + 1, Len(s)))

\* Iterator::next
next(segments) == IF segments = <<>> THEN None ELSE Some(Head(segments))

\* the key fetch_current_user looks up, None when .next() is None
lookup_key(auth_token) ==
  LET first == next(split(auth_token))
  IN IF first = None THEN None ELSE Some(UserKey(first[1]))

\* User::find: Ok(Some(user)), Ok(None) or Err
FindResults == {"Some", "None", "Err"}

\* fetch_current_user: Ok(user) as Some(user), any Err as its HttpError
fetch_current_user(auth_token, found) ==
  LET key == lookup_key(auth_token)
  IN IF key = None THEN [ok |-> FALSE, user |-> None, err |-> unauthorized]
     ELSE CASE found = "Some" -> [ok |-> TRUE, user |-> Some([id |-> key[1]]), err |-> unauthorized]
            [] found = "None" -> [ok |-> FALSE, user |-> None, err |-> unauthorized]
            [] OTHER -> [ok |-> FALSE, user |-> None, err |-> internal_server_error]

\* mutant of check_current_user: a payload that does not parse counts as no payload
check_current_user_lenient(payload, found) ==
  CASE payload.kind = "params" -> fetch_current_user(payload.auth_token, found)
    [] OTHER -> [ok |-> TRUE, user |-> None, err |-> bad_request]

\* check_current_user: the payload, then fetch_current_user when it holds params
check_current_user(payload, found) ==
  CASE payload.kind = "malformed" -> [ok |-> FALSE, user |-> None, err |-> bad_request]
    [] payload.kind = "absent" -> [ok |-> TRUE, user |-> None, err |-> bad_request]
    [] OTHER -> fetch_current_user(payload.auth_token, found)

\* the storage calls check_current_user issues
check_current_user_calls(payload, found) ==
  IF payload.kind = "params" /\ lookup_key(payload.auth_token) # None
  THEN <<[op |-> "User::find", result |-> found]>>
  ELSE <<>>

\* respond_to without the "id" route parameter: no stage runs
RespondToWithoutId ==
  /\ pc = "respond_to"
  /\ ~request[1].has_id
  /\ Fail(bad_request)
  /\ request' = None
  /\ UNCHANGED <<current_user, comments, users, stages, db_calls,
                 comment_batch, comments_done, reactions_seen>>

\* respond_to with "id": Self::new().check_current_user(request)?
CheckCurrentUser ==
  /\ pc = "respond_to"
  /\ request[1].has_id
  /\ \E found \in FindResults :
       LET res == check_current_user(request[1].payload, found)
       IN /\ db_calls' = db_calls \o check_current_user_calls(request[1].payload, found)
          /\ IF res.ok
             THEN /\ current_user' = res.user
                  /\ pc' = "fetch_comments"
                  /\ response' = response
             ELSE /\ current_user' = current_user
                  /\ Fail(res.err)
  /\ request' = None
  /\ stages' = Append(stages, "check_current_user")
  /\ UNCHANGED <<comments, users, comment_batch, comments_done, reactions_seen>>

\* --------------------------------------------------------- Comment Loader

\* CommentRecord::list: Err, or Ok(batch) in whatever order storage returns
CommentListResults ==
  {[ok |-> FALSE, items |-> <<>>]}
  \cup {[ok |-> TRUE, items |-> b] : b \in SeqsUpTo(CommentRecords, MaxComments)}

\* BTreeMap::insert / HashMap::insert: a new key, or the old value replaced
insert(map, key, value) ==
  [k \in DOMAIN map \cup {key} |-> IF k = key THEN value ELSE map[k]]

\* the Comment parse_comments builds from a record
new_comment(record, is_reply) ==
  [id |-> record.id, user_id |-> record.user_id, body |-> record.body,
   replies |-> <<>>, reactions |-> <<>>, user_reactions |-> <<>>,
   is_reply |-> is_reply]

\* mutant of push_reply: the parent's identifier is pushed instead of the reply's
push_reply_parent(cs, parent_id, id) ==
  [cs EXCEPT ![parent_id].replies = Append(@, parent_id)]

\* parent.replies.push(comment.id.clone())
push_reply(cs, parent_id, id) ==
  [cs EXCEPT ![parent_id].replies = Append(@, id)]

\* mutant of insert_comment: a reply is linked but not stored
insert_comment_roots_only(cs, record, is_reply) ==
  IF is_reply THEN cs ELSE insert(cs, record.id, new_comment(record, is_reply))

\* self.comments.insert(comment.id.clone(), Comment {..})
insert_comment(cs, record, is_reply) ==
  insert(cs, record.id, new_comment(record, is_reply))

\* mutant of parse_comment: a reply without its parent is stored and the loop goes on
parse_comment_adopting(cs, record) ==
  IF record.replies_to # None /\ record.replies_to[1] \in DOMAIN cs
  THEN [ok |-> TRUE,
        comments |-> insert(push_reply(cs, record.replies_to[1], record.id), record.id,
                            new_comment(record, TRUE))]
  ELSE [ok |-> TRUE,
        comments |-> insert(cs, record.id, new_comment(record, record.replies_to # None))]

\* one iteration of the loop of parse_comments: ok = FALSE is the early return
parse_comment(cs, record) ==
  IF record.replies_to # None
  THEN IF record.replies_to[1] \in DOMAIN cs
       THEN [ok |-> TRUE,
             comments |-> insert_comment(push_reply(cs, record.replies_to[1], record.id),
                                         record, TRUE)]
       ELSE [ok |-> FALSE, comments |-> cs]
  ELSE [ok |-> TRUE, comments |-> insert_comment(cs, record, FALSE)]

\* fetch_comments up to the loop of parse_comments
FetchComments ==
  /\ pc = "fetch_comments"
  /\ \E res \in CommentListResults :
       /\ db_calls' = Append(db_calls, [op |-> "Comment::list",
                                        result |-> IF res.ok THEN "Ok" ELSE "Err"])
       /\ IF res.ok
          THEN /\ comment_batch' = res.items
               /\ pc' = "parse_comments"
               /\ response' = response
          ELSE /\ comment_batch' = comment_batch
               /\ Fail(internal_server_error)
  /\ stages' = Append(stages, "fetch_comments")
  /\ UNCHANGED <<request, current_user, comments, users, comments_done, reactions_seen>>

\* for comment in comments { .. }: one record
ParseComments ==
  /\ pc = "parse_comments"
  /\ comments_done < Len(comment_batch)
  /\ LET res == parse_comment(comments, comment_batch[comments_done + 1])
     IN /\ comments' = res.comments
        /\ IF res.ok
           THEN /\ comments_done' = comments_done + 1
                /\ UNCHANGED <<pc, response>>
           ELSE /\ comments_done' = comments_done
                /\ Fail(internal_server_error)
  /\ UNCHANGED <<request, current_user, users, stages, db_calls, comment_batch,
                 reactions_seen>>

\* ---------------------------------------------------------- User Enricher

\* UserJson { name, picture_url } of the profile stored under id
UserJson(id) == [name |-> id, picture_url |-> id]

\* self.comments.values().map(|comment| &comment.user_id)
comment_user_ids(cs) == {cs[c].user_id : c \in DOMAIN cs}

\* User::batch_get: Err, or Ok(the profiles storage holds among those asked for)
BatchGetResults(user_ids) ==
  {[ok |-> FALSE, ids |-> {}]} \cup {[ok |-> TRUE, ids |-> s] : s \in SUBSET user_ids}

\* parse_users: the lookup from the profiles
parse_users(ids) == [u \in ids |-> UserJson(u)]

\* parse_comments returns Ok; fetch_users
FetchUsers ==
  /\ pc = "parse_comments"
  /\ comments_done = Len(comment_batch)
  /\ \E res \in BatchGetResults(comment_user_ids(comments)) :
       /\ db_calls' = Append(db_calls, [op |-> "User::batch_get",
                                        result |-> IF res.ok THEN "Ok" ELSE "Err"])
       /\ IF res.ok
          THEN /\ users' = parse_users(res.ids)
               /\ pc' = "fetch_reactions"
               /\ response' = response
          ELSE /\ users' = users
               /\ Fail(internal_server_error)
  /\ comment_batch' = <<>>
  /\ comments_done' = 0
  /\ stages' = Append(stages, "fetch_users")
  /\ UNCHANGED <<request, current_user, comments, reactions_seen>>

\* ----------------------------------------------------- Reaction Aggregator

\* *comment.reactions.entry(type).or_insert(0) += 1 on a u16 that wraps
count_reaction(reactions, type) ==
  insert(reactions, type,
         ((IF type \in DOMAIN reactions THEN reactions[type] ELSE 0) + 1)
           % ReactionCountModulus)

\* mutant of is_user_reaction: any reaction counts as the acting user's
is_user_reaction_any(reaction, cu) == cu # None

\* is_user_reaction of parse_reactions
is_user_reaction(reaction, cu) ==
  IF cu # None THEN reaction.user_id = cu[1].id ELSE FALSE

\* mutant of parse_reaction: a reaction to an unknown comment creates an entry
parse_reaction_inserting(cs, reaction, cu) ==
  LET known == IF reaction.comment_id \in DOMAIN cs THEN cs
               ELSE insert(cs, reaction.comment_id,
                           [id |-> reaction.comment_id, user_id |-> reaction.user_id,
                            body |-> <<>>, replies |-> <<>>, reactions |-> <<>>,
                            user_reactions |-> <<>>, is_reply |-> FALSE])
  IN [known EXCEPT
        ![reaction.comment_id].reactions =
           insert(@, reaction.reaction_type,
                  ((IF reaction.reaction_type \in DOMAIN @ THEN @[reaction.reaction_type]
                    ELSE 0) + 1) % ReactionCountModulus),
        ![reaction.comment_id].user_reactions =
           IF cu # None /\ reaction.user_id = cu[1].id
           THEN Append(@, reaction.reaction_type)
           ELSE @]

\* one iteration of the loop of parse_reactions
parse_reaction(cs, reaction, cu) ==
  IF reaction.comment_id \in DOMAIN cs
  THEN [cs EXCEPT
          ![reaction.comment_id].reactions = count_reaction(@, reaction.reaction_type),
          ![reaction.comment_id].user_reactions =
             IF is_user_reaction(reaction, cu)
             THEN Append(@, reaction.reaction_type)
             ELSE @]
  ELSE cs

\* the += 1 of parse_reactions overflows the u16
overflows(cs, reaction) ==
  /\ reaction.comment_id \in DOMAIN cs
  /\ reaction.reaction_type \in DOMAIN cs[reaction.comment_id].reactions
  /\ cs[reaction.comment_id].reactions[reaction.reaction_type] = ReactionCountModulus - 1

\* Reaction::list: Err, or Ok(batch); the batch is drawn record by record below
FetchReactions ==
  /\ pc = "fetch_reactions"
  /\ \E res \in {"Ok", "Err"} :
       /\ db_calls' = Append(db_calls, [op |-> "Reaction::list", result |-> res])
       /\ IF res = "Ok"
          THEN /\ pc' = "parse_reactions"
               /\ response' = response
          ELSE Fail(internal_server_error)
  /\ stages' = Append(stages, "fetch_reactions")
  /\ UNCHANGED <<request, current_user, comments, users, comment_batch,
                 comments_done, reactions_seen>>

\* for reaction in reactions { .. }: one record of the batch
ParseReaction(reaction) ==
  /\ pc = "parse_reactions"
  /\ comments' = parse_reaction(comments, reaction, current_user)
  /\ reactions_seen' = reactions_seen (+) SetToBag({reaction})
  /\ UNCHANGED <<pc, request, current_user, users, response, stages, db_calls,
                 comment_batch, comments_done>>

\* the loop over a batch of at most MaxReactions records
ParseReactions ==
  /\ BagCardinality(reactions_seen) < MaxReactions
  /\ \E reaction \in ReactionRecords : ParseReaction(reaction)

\* the loop over a batch that repeats one record OverflowBatch times
ParseReactionsOverflow ==
  /\ BagCardinality(reactions_seen) < OverflowBatch
  /\ \E reaction \in OverflowRecords : ParseReaction(reaction)

\* the same += 1 in a build with overflow checks: the handler panics
ParseReactionsPanic ==
  /\ pc = "parse_reactions"
  /\ BagCardinality(reactions_seen) < OverflowBatch
  /\ \E reaction \in OverflowRecords : overflows(comments, reaction)
  /\ pc' = "panicked"
  /\ UNCHANGED <<request, current_user, comments, users, response, stages, db_calls,
                 comment_batch, comments_done, reactions_seen>>

\* --------------------------------------------------------- Tree Serializer

\* the keys of a BTreeMap in ascending order
RECURSIVE ascending(_)
ascending(S) ==
  IF S = {} THEN <<>>
  ELSE LET m == CHOOSE x \in S : \A y \in S : x <= y
       IN <<m>> \o ascending(S \ {m})

\* mutant of collect: the items that are not Ok are left out
RECURSIVE collect_skipping(_)
collect_skipping(results) ==
  IF results = <<>> THEN [kind |-> "ok", json |-> <<>>]
  ELSE LET rest == collect_skipping(Tail(results))
       IN IF Head(results).kind # "ok" THEN rest
          ELSE [kind |-> "ok", json |-> <<Head(results).json>> \o rest.json]

\* collect::<Result<Vec<_>, _>>(): the items up to the first that is not Ok
RECURSIVE collect(_)
collect(results) ==
  IF results = <<>> THEN [kind |-> "ok", json |-> <<>>]
  ELSE IF Head(results).kind # "ok" THEN [kind |-> Head(results).kind, json |-> <<>>]
  ELSE LET rest == collect(Tail(results))
       IN IF rest.kind # "ok" THEN rest
          ELSE [kind |-> "ok", json |-> <<Head(results).json>> \o rest.json]

\* serialize_comment: kind "ok" with the CommentJson, "err" for the missing
\* user, "panic" where self.comments.get(id).unwrap() meets None
RECURSIVE serialize_comment(_, _, _)
serialize_comment(cs, us, comment) ==
  IF comment.user_id \notin DOMAIN us
  THEN [kind |-> "err", json |-> <<>>]
  ELSE LET replies ==
             collect([i \in 1..Len(comment.replies) |->
                        IF comment.replies[i] \in DOMAIN cs
                        THEN serialize_comment(cs, us, cs[comment.replies[i]])
                        ELSE [kind |-> "panic", json |-> <<>>]])
       IN IF replies.kind # "ok" THEN replies
          ELSE [kind |-> "ok",
                json |-> [id |-> comment.id, body |-> comment.body,
                          user |-> us[comment.user_id], replies |-> replies.json,
                          reactions |-> comment.reactions,
                          user_reactions |-> comment.user_reactions]]

\* .values().filter(|comment| !comment.is_reply)
root_ids(cs) == SelectSeq(ascending(DOMAIN cs), LAMBDA c : ~cs[c].is_reply)

\* serialize: the roots in ascending order, each with its replies nested
serialize(cs, us) ==
  LET roots == root_ids(cs)
  IN collect([i \in 1..Len(roots) |-> serialize_comment(cs, us, cs[roots[i]])])

\* parse_reactions returns Ok; serialize.  serde_json::to_string of the derived
\* CommentJson (string keys, no custom Serialize) has no Err to give.
Serialize ==
  /\ pc = "parse_reactions"
  /\ LET res == serialize(comments, users)
     IN IF res.kind = "panic"
        THEN /\ pc' = "panicked"
             /\ response' = response
        ELSE /\ pc' = "done"
             /\ response' = Some(IF res.kind = "ok" THEN ok(res.json)
                                 ELSE internal_server_error)
  /\ stages' = Append(stages, "serialize")
  /\ UNCHANGED <<request, current_user, comments, users, db_calls, comment_batch,
                 comments_done, reactions_seen>>

\* a tally of at most MaxReactions never reaches the width of ReactionCount, so
\* the overflow of += 1 is left to SpecOverflow
Next ==
  \/ RespondToWithoutId
  \/ CheckCurrentUser
  \/ FetchComments
  \/ ParseComments
  \/ FetchUsers
  \/ FetchReactions
  \/ ParseReactions
  \/ Serialize

Spec == Init /\ [][Next]_vars

\* ------------------------------------------------ the tally at its width

\* a state of Spec: an anonymous request whose one root comment was loaded and
\* enriched, about to fold its reaction batch
InitOverflow ==
  /\ pc = "parse_reactions"
  /\ request = None
  /\ current_user = None
  /\ comments = insert_comment(<<>>, [id |-> 1, replies_to |-> None,
                                      user_id |-> UserKey(<<"a">>), body |-> "hi"], FALSE)
  /\ users = parse_users({UserKey(<<"a">>)})
  /\ response = None
  /\ stages = <<"check_current_user", "fetch_comments", "fetch_users", "fetch_reactions">>
  /\ db_calls = <<[op |-> "Comment::list", result |-> "Ok"],
                  [op |-> "User::batch_get", result |-> "Ok"],
                  [op |-> "Reaction::list", result |-> "Ok"]>>
  /\ comment_batch = <<>>
  /\ comments_done = 0
  /\ reactions_seen = EmptyBag

NextOverflow ==
  \/ ParseReactionsOverflow
  \/ ParseReactionsPanic
  \/ Serialize

SpecOverflow == InitOverflow /\ [][NextOverflow]_vars


\* ------------------------------------------------------------- the claims

Range(seq) == {seq[i] : i \in 1..Len(seq)}
Occurrences(seq, x) == Cardinality({i \in 1..Len(seq) : seq[i] = x})
Last(seq) == seq[Len(seq)]

\* the sum of the function f over its domain
RECURSIVE Sum(_)
Sum(f) ==
  IF DOMAIN f = {} THEN 0
  ELSE LET x == CHOOSE y \in DOMAIN f : TRUE
       IN f[x] + Sum([y \in DOMAIN f \ {x} |-> f[y]])

\* the loop of parse_comments has consumed the whole batch
LoadComplete == pc = "parse_comments" /\ comments_done = Len(comment_batch)

\* parse_comments returned Err
LoadFailed ==
  /\ pc = "done"
  /\ stages # <<>>
  /\ Last(stages) = "fetch_comments"
  /\ Last(db_calls) = [op |-> "Comment::list", result |-> "Ok"]

\* comment_batch is the batch storage returned
InLoad == pc = "parse_comments" \/ LoadFailed

\* serialize ran and respond_to returned
Serialized == pc = "done" /\ stages # <<>> /\ Last(stages) = "serialize"

BatchIds(b) == {b[i].id : i \in 1..Len(b)}

\* a reply whose target is no comment of the batch
HasOrphan(b) ==
  \E i \in 1..Len(b) : b[i].replies_to # None /\ b[i].replies_to[1] \notin BatchIds(b)

UniqueIds(b) == \A i, j \in 1..Len(b) : b[i].id = b[j].id => i = j

\* each reply appears after its target
ParentsFirst(b) ==
  \A i \in 1..Len(b) :
    b[i].replies_to # None => \E j \in 1..(i - 1) : b[j].id = b[i].replies_to[1]

\* some order of the batch has each reply after its target
SomeOrderLoads(b) ==
  \E f \in Permutations(1..Len(b)) : ParentsFirst([i \in 1..Len(b) |-> b[f[i]]])

\* the comments the serializer visits: the roots and what their replies lists reach
RECURSIVE Closure(_, _)
Closure(cs, S) ==
  LET N == S \cup UNION {Range(cs[c].replies) : c \in S \cap DOMAIN cs}
  IN IF N = S THEN S ELSE Closure(cs, N)

Reachable(cs) == Closure(cs, {c \in DOMAIN cs : ~cs[c].is_reply})

\* the nodes of a serialized tree, at every depth
RECURSIVE Nodes(_)
Nodes(trees) ==
  IF trees = <<>> THEN {}
  ELSE {[id |-> Head(trees).id, user |-> Head(trees).user]}
       \cup Nodes(Head(trees).replies) \cup Nodes(Tail(trees))

\* the reaction records consumed so far that satisfy P, with multiplicity
CountSeen(P(_)) ==
  Sum([r \in {x \in BagToSet(reactions_seen) : P(x)} |-> CopiesIn(r, reactions_seen)])

\* the tally of type for a comment: no entry reads as zero
Tally(comment, type) ==
  IF type \in DOMAIN comment.reactions THEN comment.reactions[type] ELSE 0

\* C1: a batch holding a reply whose target is no comment of the batch never
\* finishes loading, whatever its order; parse_comments fails with InternalError,
\* no later stage runs and the response carries no tree.
C1_OrphanReplyFails ==
  (InLoad /\ HasOrphan(comment_batch)) =>
    /\ ~LoadComplete
    /\ users = <<>>
    /\ Last(stages) = "fetch_comments"
    /\ Last(db_calls).op = "Comment::list"
    /\ pc = "done" => response = Some(internal_server_error)

\* C1 witness: comments were inserted, then the orphan reply failed the load
C1_Witness ==
  /\ LoadFailed
  /\ HasOrphan(comment_batch)
  /\ comments # <<>>
  /\ response = Some(internal_server_error)

\* C2 (as claimed): a batch with unique identifiers that loads in some order
\* loads in every order storage may return it in.
C2_AnyOrderLoads ==
  (InLoad /\ UniqueIds(comment_batch) /\ SomeOrderLoads(comment_batch)) => ~LoadFailed

\* C3: a batch with unique identifiers and each reply after its target loads;
\* each record is stored with is_reply set iff it is a reply, each reply is once
\* in the replies list of its target and in no other; serialize puts each
\* non-reply comment once at the top level and no reply there.
C3_ParentsFirstLoads ==
  /\ (InLoad /\ UniqueIds(comment_batch) /\ ParentsFirst(comment_batch)) =>
       /\ ~LoadFailed
       /\ LoadComplete =>
            /\ DOMAIN comments = BatchIds(comment_batch)
            /\ \A i \in 1..Len(comment_batch) :
                 LET r == comment_batch[i]
                 IN /\ comments[r.id].is_reply = (r.replies_to # None)
                    /\ \A c \in DOMAIN comments :
                         Occurrences(comments[c].replies, r.id)
                           = IF r.replies_to = Some(c) THEN 1 ELSE 0
  /\ (Serialized /\ response[1].kind = "ok") =>
       \A c \in DOMAIN comments :
         Cardinality({i \in 1..Len(response[1].data) : response[1].data[i].id = c})
           = IF comments[c].is_reply THEN 0 ELSE 1

\* C3 witness: a root and its reply, in that order, are loaded
C3_Witness ==
  /\ LoadComplete
  /\ UniqueIds(comment_batch)
  /\ ParentsFirst(comment_batch)
  /\ \E i \in 1..Len(comment_batch) : comment_batch[i].replies_to # None

\* C4 (as claimed): once parse_reactions returned, the tally of each comment and
\* type is the number of reaction records with that comment and type, and the
\* type has an entry iff that number is not zero.
C4_TallyEqualsCount ==
  (stages # <<>> /\ Last(stages) = "serialize") =>
    \A c \in DOMAIN comments : \A t \in ReactionTypes :
      LET n == CountSeen(LAMBDA r : r.comment_id = c /\ r.reaction_type = t)
      IN /\ Tally(comments[c], t) = n
         /\ t \in DOMAIN comments[c].reactions <=> n > 0

\* C5: during and after parse_reactions the user_reactions list of each comment
\* holds each type as often as the batch has records of that comment and type by
\* the acting user, and is empty when no acting user is set.
C5_UserReactions ==
  (pc = "parse_reactions" \/ Serialized) =>
    \A c \in DOMAIN comments :
      /\ Range(comments[c].user_reactions) \subseteq ReactionTypes
      /\ current_user = None => comments[c].user_reactions = <<>>
      /\ \A t \in ReactionTypes :
           Occurrences(comments[c].user_reactions, t)
             = IF current_user = None THEN 0
               ELSE CountSeen(LAMBDA r : /\ r.comment_id = c
                                         /\ r.reaction_type = t
                                         /\ r.user_id = current_user[1].id)

\* C5 witness: the acting user reacted twice with one type, and both are listed
C5_Witness ==
  /\ Serialized
  /\ current_user # None
  /\ \E c \in DOMAIN comments : \E t \in ReactionTypes :
       Occurrences(comments[c].user_reactions, t) = 2

\* C6: every comment of a loaded batch with unique identifiers is a root or
\* nested under one; if a root or a nested reply at any depth has no profile in
\* the lookup, serialize fails with InternalError; a tree is returned only with
\* every comment of it resolved.
C6_MissingUserFails ==
  /\ (LoadComplete /\ UniqueIds(comment_batch)) => Reachable(comments) = DOMAIN comments
  /\ Serialized =>
       LET missing == \E c \in Reachable(comments) : comments[c].user_id \notin DOMAIN users
       IN /\ missing => response = Some(internal_server_error)
          /\ response[1].kind = "ok" =>
               /\ ~missing
               /\ Nodes(response[1].data)
                    = {[id |-> c, user |-> users[comments[c].user_id]] :
                         c \in Reachable(comments)}

\* C6 witness: every root is resolved, a nested reply is not, and serialize failed
C6_Witness ==
  /\ Serialized
  /\ response = Some(internal_server_error)
  /\ \A c \in DOMAIN comments : ~comments[c].is_reply => comments[c].user_id \in DOMAIN users
  /\ \E c \in Reachable(comments) : comments[c].user_id \notin DOMAIN users

StageOrder ==
  <<"check_current_user", "fetch_comments", "fetch_users", "fetch_reactions", "serialize">>

\* the stage that issues each storage call, by its place in StageOrder
CallStage(op) ==
  CASE op = "User::find" -> 1
    [] op = "Comment::list" -> 2
    [] op = "User::batch_get" -> 3
    [] op = "Reaction::list" -> 4

C7_Inv ==
  /\ Len(stages) <= Len(StageOrder)
  /\ \A i \in 1..Len(stages) : stages[i] = StageOrder[i]
  /\ \A i \in 1..Len(db_calls) : CallStage(db_calls[i].op) <= Len(stages)
  /\ \A i, j \in 1..Len(db_calls) :
       i < j => CallStage(db_calls[i].op) < CallStage(db_calls[j].op)
  /\ response # None =>
       /\ pc = "done"
       /\ response[1].kind = "ok" => stages = StageOrder
       /\ response[1].kind # "ok" => response[1].data = <<>>
       /\ response[1].kind = "bad_request" => db_calls = <<>>

C7_Step ==
  /\ response = None
  /\ Len(stages') <= Len(stages) + 1
  /\ (pc = "respond_to" /\ (~request[1].has_id \/ request[1].payload.kind = "malformed")) =>
       /\ response' = Some(bad_request)
       /\ db_calls' = <<>>

\* C7: the stages run at most once each, in the order of StageOrder; once a
\* response exists nothing more runs and no storage call follows; an error
\* carries no tree; without "id", or with a payload that does not parse, the
\* response is BadRequest and no storage call was issued.
C7_StagesInOrder == []C7_Inv /\ [][C7_Step]_vars

\* C7 witness: the payload did not parse: BadRequest, no storage call
C7_Witness ==
  /\ response = Some(bad_request)
  /\ stages = <<"check_current_user">>
  /\ db_calls = <<>>

\* the text before the first token delimiter
LeadingSegment(token) ==
  LET n == CHOOSE k \in 0..Len(token) :
             /\ \A i \in 1..k : token[i] # TOKEN_DELIMITER
             /\ k < Len(token) => token[k + 1] = TOKEN_DELIMITER
  IN SubSeq(token, 1, n)

C8_Step ==
  (pc = "respond_to" /\ request[1].has_id) =>
    LET payload == request[1].payload
    IN /\ (payload.kind = "params" /\ LeadingSegment(payload.auth_token) = <<>>) =>
            (response' = Some(unauthorized) /\ current_user' = None)
       /\ (payload.kind = "params"
             /\ db_calls' = <<[op |-> "User::find", result |-> "None"]>>) =>
            (response' = Some(unauthorized) /\ current_user' = None)
       /\ payload.kind = "absent" =>
            (response' = None /\ db_calls' = <<>> /\ current_user' = None)

\* C8 (as claimed): the Identity Resolver answers Unauthorized and sets no
\* acting user when the credential's leading segment is empty and when no
\* profile is stored under the derived key; without a credential it does not
\* fail, looks nothing up and leaves the acting user absent.
C8_IdentityResolver == [][C8_Step]_vars

C9_Inv ==
  pc = "parse_reactions" =>
    /\ Sum([c \in DOMAIN comments |->
               Sum([t \in ReactionTypes |-> Tally(comments[c], t)])])
         = CountSeen(LAMBDA r : r.comment_id \in DOMAIN comments)
    /\ Sum([c \in DOMAIN comments |-> Len(comments[c].user_reactions)])
         = IF current_user = None THEN 0
           ELSE CountSeen(LAMBDA r : /\ r.comment_id \in DOMAIN comments
                                     /\ r.user_id = current_user[1].id)

C9_Step ==
  \A r \in ReactionRecords :
    (/\ pc = "parse_reactions"
     /\ reactions_seen' = reactions_seen (+) SetToBag({r})
     /\ r.comment_id \notin DOMAIN comments) =>
      /\ comments' = comments
      /\ pc' = "parse_reactions"
      /\ response' = None

\* C9: a reaction record for a comment that is not in the skeleton changes no
\* comment, fails nothing and leaves the loop running: the tallies and the
\* user_reactions lists count the records of known comments only.
C9_UnknownCommentDropped == []C9_Inv /\ [][C9_Step]_vars

\* C9 witness: the skeleton has comments, none of them the one the batch reacts
\* to; two records, one of them the acting user's, were consumed and dropped
C9_Witness ==
  /\ pc = "parse_reactions"
  /\ comments # <<>>
  /\ current_user # None
  /\ BagCardinality(reactions_seen) = 2
  /\ \E r \in BagToSet(reactions_seen) :
       r.comment_id \notin DOMAIN comments /\ r.user_id = current_user[1].id

\* C10: in every state, also inside the loop of parse_comments and for batches
\* that repeat identifiers or fail, each identifier in a replies list is a key of
\* comments and no comment is below itself, so the walk of serialize_comment
\* ends and its unwrap never meets None: after each prefix of the loop a
\* serialization with every author resolved is Ok, and no run panics.
C10_RepliesAreKeys ==
  /\ \A c \in DOMAIN comments :
       /\ Range(comments[c].replies) \subseteq DOMAIN comments
       /\ c \notin Closure(comments, Range(comments[c].replies))
  /\ pc = "parse_comments" =>
       serialize(comments, parse_users(comment_user_ids(comments))).kind = "ok"
  /\ pc # "panicked"

\* C10 witness: a tree with a nested reply was serialized
C10_Witness ==
  /\ Serialized
  /\ response[1].kind = "ok"
  /\ \E c \in DOMAIN comments : comments[c].replies # <<>>
====
